---- MODULE Spec2Model ----
(***************************************************************************)
(* The gear sweep of simulate.py: the two stress functions, the per-gear   *)
(* bound assignments on the shared metabolic model, the solver call, the   *)
(* recording of one result per gear and the two fold-change computations.  *)
(*                                                                         *)
(* Python floats are fixed-point integers here: the real x is the integer  *)
(* x * SCALE, truncated.  A float value is a record [t, v]: t is "py" for  *)
(* a Python float, "np" for a numpy.float64 (what the solver's flux        *)
(* mapping holds), "none" for None, "inf" and "nan" for the numpy          *)
(* float64 values a division by zero yields; v is the fixed-point value.   *)
(***************************************************************************)
EXTENDS Integers, Sequences, FiniteSets, TLC

(* ------------------------------------------------------------------ *)
(* Fixed-point arithmetic standing for float arithmetic               *)
(* ------------------------------------------------------------------ *)

SCALE == 10000

\* ln 2 in fixed point, used by the range reduction of exp and log.
LN2 == 6931

\* Largest argument the fixed-point exp represents (e^11 * SCALE fits the
\* integer width); larger arguments saturate to it.  The only caller with
\* such arguments takes min(., 0.95) of a tenth of the result.
ExpMaxArg == 11 * SCALE

Abs(x) == IF x < 0 THEN -x ELSE x

Min(a, b) == IF a <= b THEN a ELSE b

Max(a, b) == IF a >= b THEN a ELSE b

\* a * b on fixed-point values, split so that no product leaves the width.
MulParts[a \in Int, b \in Int] ==
    LET s == IF (a < 0) = (b < 0) THEN 1 ELSE -1
        x == Abs(a)
        y == Abs(b)
    IN  s * ((x \div SCALE) * y + ((x % SCALE) * y) \div SCALE)

MulFP(a, b) == MulParts[a, b]

\* Taylor series of exp on [0, ln 2): the sum of the terms from the n-th on.
ExpSeries[r \in Int, n \in Int, term \in Int] ==
    IF term = 0 THEN 0
    ELSE term + ExpSeries[r, n + 1, (term * r) \div ((n + 1) * SCALE)]

Pow2[k \in Nat] == IF k = 0 THEN 1 ELSE 2 * Pow2[k - 1]

\* exp(x) = 2^k * exp(r) with x = k ln 2 + r
ExpReduced[a \in Int] ==
    LET k == a \div LN2
    IN  Pow2[k] * ExpSeries[a - k * LN2, 0, SCALE]

ExpPos(x) == ExpReduced[Min(x, ExpMaxArg)]

\* np.exp / math.exp
ExpSigned[x \in Int] ==
    IF x >= 0 THEN ExpPos(x) ELSE (SCALE * SCALE) \div ExpPos(-x)

ExpFP(x) == ExpSigned[x]

\* x = m * 2^k with m in [1, 2)
LnReduce[x \in Int, k \in Int] ==
    IF x >= 2 * SCALE THEN LnReduce[x \div 2, k + 1]
    ELSE IF x < SCALE THEN LnReduce[x * 2, k - 1]
    ELSE <<x, k>>

\* z + z^3/3 + z^5/5 + ..., pw being the current odd power of z
AtanhSeries[z2 \in Int, n \in Int, pw \in Int] ==
    IF pw \div n = 0 THEN 0
    ELSE pw \div n + AtanhSeries[z2, n + 2, (pw * z2) \div SCALE]

\* ln m = 2 atanh((m - 1) / (m + 1)) for m in [1, 2)
LnMantissa[m \in Int] ==
    LET z == ((m - SCALE) * SCALE) \div (m + SCALE)
    IN  2 * AtanhSeries[(z * z) \div SCALE, 1, z]

LnParts[mk \in Int \X Int] == mk[2] * LN2 + LnMantissa[mk[1]]

\* math.log
LnFP(x) == LnParts[LnReduce[x, 0]]

PowParts[b \in Int, e \in Int] == IF b = 0 THEN 0 ELSE ExpFP(MulFP(e, LnFP(b)))

\* b ** e for b >= 0
PowFP(b, e) == PowParts[b, e]

(* ------------------------------------------------------------------ *)
(* Float values with their Python type                                *)
(* ------------------------------------------------------------------ *)

None == [t |-> "none", v |-> 0]

Py(x) == [t |-> "py", v |-> x]

Np(x) == [t |-> "np", v |-> x]

Inf == [t |-> "inf", v |-> 0]

NaN == [t |-> "nan", v |-> 0]

ZeroDivisionError == [t |-> "ZeroDivisionError", v |-> 0]

IsNumber(x) == x.t \in {"py", "np"}

\* bool(x): None and 0.0 are falsy
Truthy(x) == x.t # "none" /\ ~(IsNumber(x) /\ x.v = 0)

\* round(x, 2): to the nearest hundredth, ties to even; the type is kept
Round2(x) ==
    LET unit == SCALE \div 100
        a == Abs(x.v)
        q == a \div unit
        rem == a % unit
        up == \/ 2 * rem > unit
              \/ 2 * rem = unit /\ q % 2 = 1
        r == (IF up THEN q + 1 ELSE q) * unit
    IN  [t |-> x.t, v |-> IF x.v < 0 THEN -r ELSE r]

AbsF(x) == [t |-> x.t, v |-> Abs(x.v)]

NegF(x) == [t |-> x.t, v |-> -x.v]

\* a / b on recorded (two-decimal) values.  Two Python floats raise
\* ZeroDivisionError on a zero divisor; as soon as one operand is a
\* numpy.float64 the division is numpy's, which yields inf or nan.
DivF(a, b) ==
    LET unit == SCALE \div 100
        both_py == a.t = "py" /\ b.t = "py"
        s == IF (a.v < 0) = (b.v < 0) THEN 1 ELSE -1
        q == s * (((Abs(a.v) \div unit) * SCALE) \div (Abs(b.v) \div unit))
    IN  IF b.v = 0
        THEN IF both_py THEN ZeroDivisionError
             ELSE IF a.v = 0 THEN NaN ELSE Inf
        ELSE [t |-> IF both_py THEN "py" ELSE "np", v |-> q]

(* ------------------------------------------------------------------ *)
(* Stress functions                                                   *)
(* ------------------------------------------------------------------ *)

calculate_stress_cost(glucose_uptake) ==
    LET base_stress == MulFP(Abs(glucose_uptake), (2 * SCALE) \div 100)
    IN  Min(PowFP(base_stress, (18 * SCALE) \div 10), 200 * SCALE)

\* the same with the regime boundaries exclusive below
calculate_stress_penalty_strict(glucose_uptake) ==
    LET glucose == Abs(glucose_uptake)
        penalty == IF glucose < 30 * SCALE
                   THEN ExpFP(glucose \div 35) \div 20
                   ELSE IF glucose < 80 * SCALE
                        THEN ExpFP(glucose \div 25) \div 15
                        ELSE ExpFP(glucose \div 40) \div 10
    IN  Min(penalty, (95 * SCALE) \div 100)

calculate_stress_penalty(glucose_uptake) ==
    LET glucose == Abs(glucose_uptake)
        penalty == IF glucose <= 30 * SCALE
                   THEN ExpFP(glucose \div 35) \div 20
                   ELSE IF glucose <= 80 * SCALE
                        THEN ExpFP(glucose \div 25) \div 15
                        ELSE ExpFP(glucose \div 40) \div 10
    IN  Min(penalty, (95 * SCALE) \div 100)

(* ------------------------------------------------------------------ *)
(* The gear registry, the loaded model and the solver                 *)
(* ------------------------------------------------------------------ *)

\* Longest gear table built from GearPool.
MaxGears == 2

\* Largest uptake magnitude (whole mmol/gDW/h) handed to the stress
\* functions when they are exercised on their own.
MaxUptake == 1000

GearNames == <<"Gear 1", "Gear 2", "Gear 3", "Gear 4", "Gear 5", "Gear 6">>

Gear(k, glucose, oxygen, burden) ==
    [name |-> GearNames[k], glucose |-> glucose, oxygen |-> oxygen,
     burden |-> burden]

\* The table of the source.
LiteralGears ==
    << Gear(1, -10 * SCALE, -18 * SCALE, 0),
       Gear(2, -30 * SCALE, -30 * SCALE, (5 * SCALE) \div 100),
       Gear(3, -80 * SCALE, -60 * SCALE, (12 * SCALE) \div 100),
       Gear(4, -150 * SCALE, -100 * SCALE, (18 * SCALE) \div 100),
       Gear(5, -250 * SCALE, -150 * SCALE, (25 * SCALE) \div 100) >>

\* Other parameter sets a gear table may be written with: two well-formed
\* ones (the middle regime below its clamp; an extreme uptake), one with a
\* burden outside [0,1) and one with a glucose bound of the wrong sign.
GearPool ==
    { [glucose |-> -50 * SCALE, oxygen |-> -40 * SCALE,
       burden |-> (10 * SCALE) \div 100],
      [glucose |-> -1000 * SCALE, oxygen |-> -500 * SCALE,
       burden |-> (50 * SCALE) \div 100],
      [glucose |-> -85 * SCALE, oxygen |-> -70 * SCALE,
       burden |-> (120 * SCALE) \div 100],
      [glucose |-> 20 * SCALE, oxygen |-> -18 * SCALE,
       burden |-> (10 * SCALE) \div 100] }

GearTables ==
    {LiteralGears} \cup
    { [k \in DOMAIN f |-> Gear(k, f[k].glucose, f[k].oxygen, f[k].burden)] :
        f \in UNION { [1..n -> GearPool] : n \in 1..MaxGears } }

ValidGear(g) ==
    /\ g.burden >= 0 /\ g.burden < SCALE
    /\ g.glucose < 0 /\ g.oxygen < 0

GLC == "EX_glc__D_e"
O2 == "EX_o2_e"
BIOMASS == "BIOMASS_Ec_iML1515_core_75p37M"
ATPM == "ATPM"
LAC == "EX_lac__D_e"
ETOH == "EX_etoh_e"
ATPS == "ATPS4rpp"

Reactions == {GLC, O2, BIOMASS, ATPM, LAC, ETOH}

Bounds(lb, ub) == [lower_bound |-> lb, upper_bound |-> ub]

\* Models load_model may hand over; every reaction has lower <= upper.
\* The first carries the published iML1515 bounds, the second fixes the
\* maintenance reaction (lower = upper) and closes the fermentation
\* exchanges, the third has no biomass capacity.
NominalModels ==
    { (GLC :> Bounds(-10 * SCALE, 1000 * SCALE)) @@
      (O2 :> Bounds(-1000 * SCALE, 1000 * SCALE)) @@
      (BIOMASS :> Bounds(0, 1000 * SCALE)) @@
      (ATPM :> Bounds((686 * SCALE) \div 100, 1000 * SCALE)) @@
      (LAC :> Bounds(0, 1000 * SCALE)) @@
      (ETOH :> Bounds(0, 1000 * SCALE)),
      (GLC :> Bounds(-10 * SCALE, 0)) @@
      (O2 :> Bounds(-20 * SCALE, 0)) @@
      (BIOMASS :> Bounds(0, 100 * SCALE)) @@
      (ATPM :> Bounds((839 * SCALE) \div 100, (839 * SCALE) \div 100)) @@
      (LAC :> Bounds(0, 0)) @@
      (ETOH :> Bounds(0, 0)),
      (GLC :> Bounds(-10 * SCALE, 1000 * SCALE)) @@
      (O2 :> Bounds(-1000 * SCALE, 1000 * SCALE)) @@
      (BIOMASS :> Bounds(0, 0)) @@
      (ATPM :> Bounds((686 * SCALE) \div 100, 1000 * SCALE)) @@
      (LAC :> Bounds(0, 1000 * SCALE)) @@
      (ETOH :> Bounds(0, 1000 * SCALE)) }

Solution(objective_value, fluxes) ==
    [objective_value |-> objective_value, fluxes |-> fluxes]

\* What model.optimize() may return: an optimum; no objective value with
\* whatever primal values the solver left in the flux mapping; an all-zero
\* solution; an optimum whose mapping lacks two of the named fluxes; an
\* optimum so small that it rounds to zero.
SolverOutcomes ==
    { Solution(Py(8770),
               (ATPS :> Np(704250)) @@ (GLC :> Np(-99960)) @@
               (LAC :> Np(0)) @@ (ETOH :> Np(0))),
      Solution(None,
               (ATPS :> Np(125000)) @@ (GLC :> Np(-30000)) @@
               (LAC :> Np(15000)) @@ (ETOH :> Np(22500))),
      Solution(Py(0),
               (ATPS :> Np(0)) @@ (GLC :> Np(0)) @@
               (LAC :> Np(0)) @@ (ETOH :> Np(0))),
      Solution(Py(5000), (GLC :> Np(-50040)) @@ (LAC :> Np(40000))),
      Solution(Py(40),
               (ATPS :> Np(12340)) @@ (GLC :> Np(-20)) @@
               (LAC :> Np(0)) @@ (ETOH :> Np(0))) }

NoSolution == Solution(None, <<>>)

\* solution.fluxes.get(key): no default
FluxGet_nodefault(fluxes, key) ==
    IF key \in DOMAIN fluxes THEN fluxes[key] ELSE None

\* solution.fluxes.get(key, 0.0)
FluxGet(fluxes, key) == IF key \in DOMAIN fluxes THEN fluxes[key] ELSE Py(0)

(* ------------------------------------------------------------------ *)
(* State                                                              *)
(* ------------------------------------------------------------------ *)

VARIABLES
    gears,           \* the gear registry
    nominal,         \* the model as loaded (never written: a history variable)
    model,           \* the shared model object's bounds
    pc,              \* position in the script
    i,               \* gears taken by the sweep loop so far
    base_biomass,
    stress_penalty,
    biomass_bound,
    solution,
    solves,          \* solver calls per gear index (history variable)
    results,
    j,               \* results taken by the fold loop so far
    glucose_fold,
    atp_fold,
    growth_fold,
    printed,         \* fold changes handed to print
    plot_gears,      \* the labels line 101 rebinds the name gears to
    plot_data,       \* the five series extracted for plotting
    glucose_folds,
    atp_folds,
    growth_folds,
    error,           \* the exception that ended the script, if any
    glucose_uptake,  \* argument of a stress function exercised on its own
    called,          \* which stress function was applied to it
    returned         \* and what it returned

sweep_vars ==
    <<gears, nominal, model, pc, i, base_biomass, stress_penalty,
      biomass_bound, solution, solves, results>>

fold_vars ==
    <<j, glucose_fold, atp_fold, growth_fold, printed, plot_gears, plot_data,
      glucose_folds, atp_folds, growth_folds, error>>

stress_vars == <<glucose_uptake, called, returned>>

vars == <<sweep_vars, fold_vars, stress_vars>>

Unset == [t |-> "unset", v |-> 0]

ScriptStart ==
    /\ model = nominal
    /\ pc = "idle"
    /\ i = 0
    /\ base_biomass = 0
    /\ stress_penalty = 0
    /\ biomass_bound = 0
    /\ solution = NoSolution
    /\ solves = [k \in 1..Len(gears) |-> 0]
    /\ results = <<>>
    /\ j = 0
    /\ glucose_fold = Unset
    /\ atp_fold = Unset
    /\ growth_fold = Unset
    /\ printed = <<>>
    /\ plot_gears = <<>>
    /\ plot_data = <<>>
    /\ glucose_folds = <<>>
    /\ atp_folds = <<>>
    /\ growth_folds = <<>>
    /\ error = "none"

Init ==
    /\ gears \in GearTables
    /\ nominal \in NominalModels
    /\ ScriptStart
    /\ glucose_uptake = 0
    /\ called = "none"
    /\ returned = 0

gear == gears[i]

SetBound(r, side, x) == model' = [model EXCEPT ![r][side] = x]

Goto(from, to) == pc = from /\ pc' = to

(* ------------------------------------------------------------------ *)
(* The sweep loop                                                     *)
(* ------------------------------------------------------------------ *)

\* for gear in gears: the loop takes the next gear
NextGear ==
    /\ pc \in {"idle", "recorded"}
    /\ i < Len(gears)
    /\ i' = i + 1
    /\ pc' = "set_glucose"
    /\ UNCHANGED <<gears, nominal, model, base_biomass, stress_penalty,
                   biomass_bound, solution, solves, results>>
    /\ UNCHANGED <<fold_vars, stress_vars>>

SetGlucose ==
    /\ Goto("set_glucose", "set_oxygen")
    /\ SetBound(GLC, "lower_bound", gear.glucose)
    /\ UNCHANGED <<gears, nominal, i, base_biomass, stress_penalty,
                   biomass_bound, solution, solves, results>>
    /\ UNCHANGED <<fold_vars, stress_vars>>

\* the oxygen bound of the previous gear is left in place
SetOxygen_skipped ==
    /\ Goto("set_oxygen", "set_biomass")
    /\ UNCHANGED <<gears, nominal, model, i, base_biomass, stress_penalty,
                   biomass_bound, solution, solves, results>>
    /\ UNCHANGED <<fold_vars, stress_vars>>

SetOxygen ==
    /\ Goto("set_oxygen", "set_biomass")
    /\ SetBound(O2, "lower_bound", gear.oxygen)
    /\ UNCHANGED <<gears, nominal, i, base_biomass, stress_penalty,
                   biomass_bound, solution, solves, results>>
    /\ UNCHANGED <<fold_vars, stress_vars>>

\* base_biomass * max(0.001, 1 - burden - stress_penalty)
AdjustedBound(base, burden, penalty) ==
    MulFP(base, Max(SCALE \div 1000, SCALE - burden - penalty))

\* the bound the biomass reaction holds when the gear's adjustment is made
ReadBaseBiomass == model[BIOMASS].upper_bound

SetBiomass ==
    /\ Goto("set_biomass", "set_atpm")
    /\ base_biomass' = ReadBaseBiomass
    /\ stress_penalty' = calculate_stress_penalty(gear.glucose)
    /\ biomass_bound' = AdjustedBound(base_biomass', gear.burden, stress_penalty')
    /\ SetBound(BIOMASS, "upper_bound", biomass_bound')
    /\ UNCHANGED <<gears, nominal, i, solution, solves, results>>
    /\ UNCHANGED <<fold_vars, stress_vars>>

SetATPM ==
    /\ Goto("set_atpm", "set_lactate_lower")
    /\ SetBound(ATPM, "lower_bound", 35 * SCALE + calculate_stress_cost(gear.glucose))
    /\ UNCHANGED <<gears, nominal, i, base_biomass, stress_penalty,
                   biomass_bound, solution, solves, results>>
    /\ UNCHANGED <<fold_vars, stress_vars>>

SetLactateLower ==
    /\ Goto("set_lactate_lower", "set_lactate_upper")
    /\ SetBound(LAC, "lower_bound", 0)
    /\ UNCHANGED <<gears, nominal, i, base_biomass, stress_penalty,
                   biomass_bound, solution, solves, results>>
    /\ UNCHANGED <<fold_vars, stress_vars>>

SetLactateUpper ==
    /\ Goto("set_lactate_upper", "set_ethanol_lower")
    /\ SetBound(LAC, "upper_bound", 1000 * SCALE)
    /\ UNCHANGED <<gears, nominal, i, base_biomass, stress_penalty,
                   biomass_bound, solution, solves, results>>
    /\ UNCHANGED <<fold_vars, stress_vars>>

SetEthanolLower ==
    /\ Goto("set_ethanol_lower", "set_ethanol_upper")
    /\ SetBound(ETOH, "lower_bound", 0)
    /\ UNCHANGED <<gears, nominal, i, base_biomass, stress_penalty,
                   biomass_bound, solution, solves, results>>
    /\ UNCHANGED <<fold_vars, stress_vars>>

SetEthanolUpper ==
    /\ Goto("set_ethanol_upper", "optimize")
    /\ SetBound(ETOH, "upper_bound", 1000 * SCALE)
    /\ UNCHANGED <<gears, nominal, i, base_biomass, stress_penalty,
                   biomass_bound, solution, solves, results>>
    /\ UNCHANGED <<fold_vars, stress_vars>>

\* a solve without objective value is tried once more
Optimize_retry ==
    /\ pc = "optimize"
    /\ solution' \in SolverOutcomes
    /\ solves' = [solves EXCEPT ![i] = @ + 1]
    /\ pc' = IF ~Truthy(solution'.objective_value) /\ solves[i] = 0
             THEN "optimize" ELSE "store"
    /\ UNCHANGED <<gears, nominal, model, i, base_biomass, stress_penalty,
                   biomass_bound, results>>
    /\ UNCHANGED <<fold_vars, stress_vars>>

\* solution = model.optimize(): the solver is external, any outcome
Optimize ==
    /\ Goto("optimize", "store")
    /\ solution' \in SolverOutcomes
    /\ solves' = [solves EXCEPT ![i] = @ + 1]
    /\ UNCHANGED <<gears, nominal, model, i, base_biomass, stress_penalty,
                   biomass_bound, results>>
    /\ UNCHANGED <<fold_vars, stress_vars>>

\* the dictionary appended for the gear
ResultOf(name, sol) ==
    LET growth == sol.objective_value
        atp == FluxGet(sol.fluxes, ATPS)
        glucose == FluxGet(sol.fluxes, GLC)
        lactate == FluxGet(sol.fluxes, LAC)
        ethanol == FluxGet(sol.fluxes, ETOH)
    IN  [Gear |-> name,
         Growth |-> IF Truthy(growth) THEN Round2(growth) ELSE Py(0),
         ATP |-> IF Truthy(atp) THEN Round2(atp) ELSE Py(0),
         Glucose |-> Round2(glucose),
         Lactate |-> Round2(lactate),
         Ethanol |-> Round2(ethanol)]

Store ==
    /\ Goto("store", "recorded")
    /\ results' = Append(results, ResultOf(gear.name, solution))
    /\ UNCHANGED <<gears, nominal, model, i, base_biomass, stress_penalty,
                   biomass_bound, solution, solves>>
    /\ UNCHANGED <<fold_vars, stress_vars>>

\* the loop is exhausted; the summary table is printed
EndSweep ==
    /\ pc \in {"idle", "recorded"}
    /\ i = Len(gears)
    /\ pc' = "fold_loop"
    /\ UNCHANGED <<gears, nominal, model, i, base_biomass, stress_penalty,
                   biomass_bound, solution, solves, results>>
    /\ UNCHANGED <<fold_vars, stress_vars>>

(* ------------------------------------------------------------------ *)
(* Fold improvements, printed per gear                                *)
(* ------------------------------------------------------------------ *)

gear1 == results[1]

Raised(x) == x.t = "ZeroDivisionError"

GlucoseFoldOf(result) == DivF(AbsF(result.Glucose), AbsF(gear1.Glucose))

AtpFoldOf(result) == DivF(result.ATP, gear1.ATP)

GrowthFoldOf(result) == DivF(result.Growth, gear1.Growth)

\* one iteration of: for gear in results[1:]
FoldGear ==
    /\ pc = "fold_loop"
    /\ j < Len(results) - 1
    /\ LET result == results[j + 2]
           g == GlucoseFoldOf(result)
           a == AtpFoldOf(result)
           w == GrowthFoldOf(result)
       IN  /\ glucose_fold' = IF Raised(g) THEN glucose_fold ELSE g
           /\ atp_fold' = IF Raised(g) \/ Raised(a) THEN atp_fold ELSE a
           /\ growth_fold' =
                  IF Raised(g) \/ Raised(a) \/ Raised(w) THEN growth_fold ELSE w
           /\ IF Raised(g) \/ Raised(a) \/ Raised(w)
              THEN /\ error' = "ZeroDivisionError"
                   /\ pc' = "crashed"
                   /\ UNCHANGED <<j, printed>>
              ELSE /\ printed' = Append(printed,
                                   [Gear |-> result.Gear, glucose_fold |-> g,
                                    atp_fold |-> a, growth_fold |-> w])
                   /\ j' = j + 1
                   /\ UNCHANGED <<pc, error>>
    /\ UNCHANGED <<plot_gears, plot_data, glucose_folds, atp_folds, growth_folds>>
    /\ UNCHANGED <<gears, nominal, model, i, base_biomass, stress_penalty,
                   biomass_bound, solution, solves, results>>
    /\ UNCHANGED stress_vars

Column(f) == [k \in 1..Len(results) |-> results[k][f]]

\* the loop is exhausted; the series for plotting are extracted
ExtractPlotData ==
    /\ pc = "fold_loop"
    /\ j = Len(results) - 1
    /\ pc' = "glucose_folds"
    /\ plot_gears' = Column("Gear")
    /\ plot_data' =
           [glucose_uptake |-> [k \in 1..Len(results) |-> NegF(results[k].Glucose)],
            growth_rates |-> Column("Growth"),
            atp_production |-> Column("ATP"),
            lactate_production |-> Column("Lactate"),
            ethanol_production |-> Column("Ethanol")]
    /\ UNCHANGED <<j, glucose_fold, atp_fold, growth_fold, printed,
                   glucose_folds, atp_folds, growth_folds, error>>
    /\ UNCHANGED <<gears, nominal, model, i, base_biomass, stress_penalty,
                   biomass_bound, solution, solves, results>>
    /\ UNCHANGED stress_vars

(* ------------------------------------------------------------------ *)
(* Fold changes relative to Gear 1, as lists for plotting             *)
(* ------------------------------------------------------------------ *)

AnyRaised(list) == \E k \in 1..Len(list) : Raised(list[k])

GrowthFoldGuarded(result) ==
    IF result.Growth.v > 0 THEN GrowthFoldOf(result) ELSE Py(0)

\* list = [f(result) for result in results]; an exception leaves the name unbound
Comprehend(from, to, list, target) ==
    /\ pc = from
    /\ IF AnyRaised(list)
       THEN /\ error' = "ZeroDivisionError"
            /\ pc' = "crashed"
            /\ target' = target
       ELSE /\ target' = list
            /\ pc' = to
            /\ UNCHANGED error

GlucoseFolds ==
    /\ Comprehend("glucose_folds", "atp_folds",
                  [k \in 1..Len(results) |-> GlucoseFoldOf(results[k])],
                  glucose_folds)
    /\ UNCHANGED <<j, glucose_fold, atp_fold, growth_fold, printed, plot_gears,
                   plot_data, atp_folds, growth_folds>>
    /\ UNCHANGED <<gears, nominal, model, i, base_biomass, stress_penalty,
                   biomass_bound, solution, solves, results>>
    /\ UNCHANGED stress_vars

AtpFolds ==
    /\ Comprehend("atp_folds", "growth_folds",
                  [k \in 1..Len(results) |-> AtpFoldOf(results[k])],
                  atp_folds)
    /\ UNCHANGED <<j, glucose_fold, atp_fold, growth_fold, printed, plot_gears,
                   plot_data, glucose_folds, growth_folds>>
    /\ UNCHANGED <<gears, nominal, model, i, base_biomass, stress_penalty,
                   biomass_bound, solution, solves, results>>
    /\ UNCHANGED stress_vars

\* the plots that follow only read the lists
GrowthFolds ==
    /\ Comprehend("growth_folds", "done",
                  [k \in 1..Len(results) |-> GrowthFoldGuarded(results[k])],
                  growth_folds)
    /\ UNCHANGED <<j, glucose_fold, atp_fold, growth_fold, printed, plot_gears,
                   plot_data, glucose_folds, atp_folds>>
    /\ UNCHANGED <<gears, nominal, model, i, base_biomass, stress_penalty,
                   biomass_bound, solution, solves, results>>
    /\ UNCHANGED stress_vars

(* ------------------------------------------------------------------ *)
(* Specifications                                                     *)
(* ------------------------------------------------------------------ *)

Next ==
    \/ NextGear
    \/ SetGlucose
    \/ SetOxygen
    \/ SetBiomass
    \/ SetATPM
    \/ SetLactateLower
    \/ SetLactateUpper
    \/ SetEthanolLower
    \/ SetEthanolUpper
    \/ Optimize
    \/ Store
    \/ EndSweep
    \/ FoldGear
    \/ ExtractPlotData
    \/ GlucoseFolds
    \/ AtpFolds
    \/ GrowthFolds

Spec == Init /\ [][Next]_vars

\* The script is one sequential thread: whenever a statement is left to
\* run, it runs.
FairSpec == Spec /\ WF_vars(Next)

\* The stress functions applied on their own to any uptake value.
InitStress ==
    /\ gears = LiteralGears
    /\ nominal \in NominalModels
    /\ ScriptStart
    /\ glucose_uptake \in {u * SCALE : u \in -MaxUptake..MaxUptake}
    /\ called = "none"
    /\ returned = 0

CallStressPenalty ==
    /\ called = "none"
    /\ called' = "calculate_stress_penalty"
    /\ returned' = calculate_stress_penalty(glucose_uptake)
    /\ UNCHANGED <<glucose_uptake, sweep_vars, fold_vars>>

CallStressCost ==
    /\ called = "none"
    /\ called' = "calculate_stress_cost"
    /\ returned' = calculate_stress_cost(glucose_uptake)
    /\ UNCHANGED <<glucose_uptake, sweep_vars, fold_vars>>

NextStress == CallStressPenalty \/ CallStressCost

SpecStress == InitStress /\ [][NextStress]_vars

(* ------------------------------------------------------------------ *)
(* Properties                                                         *)
(* ------------------------------------------------------------------ *)

ConstrainingPcs ==
    {"set_glucose", "set_oxygen", "set_biomass", "set_atpm",
     "set_lactate_lower", "set_lactate_upper", "set_ethanol_lower",
     "set_ethanol_upper"}

SolvingPcs == {"optimize", "store"}

SweepPcs == {"idle", "recorded"} \cup ConstrainingPcs \cup SolvingPcs

\* the biomass bound of the current gear has been written
BiomassWritten ==
    pc \in {"set_atpm", "set_lactate_lower", "set_lactate_upper",
            "set_ethanol_lower", "set_ethanol_upper", "optimize", "store",
            "recorded"}

AllValid == \A k \in 1..Len(gears) : ValidGear(gears[k])

BurdensInRange ==
    \A k \in 1..Len(gears) : gears[k].burden >= 0 /\ gears[k].burden < SCALE

\* C1: for every gear of the sweep, the biomass upper bound written for it
\* is nominal * max(0.001, 1 - burden - capacityPenalty(|glucose|)), nominal
\* being the bound the model had before the sweep mutated anything.
C1_NominalReadOnce ==
    BiomassWritten =>
        model[BIOMASS].upper_bound =
            AdjustedBound(nominal[BIOMASS].upper_bound, gear.burden,
                          calculate_stress_penalty(Abs(gear.glucose)))

\* C2: with a non-negative nominal biomass bound and burdens in [0,1), the
\* biomass upper bound is never negative and never below 0.001 * nominal.
C2_BiomassFloor ==
    (nominal[BIOMASS].upper_bound >= 0 /\ BurdensInRange) =>
        /\ model[BIOMASS].upper_bound >= 0
        /\ model[BIOMASS].upper_bound >=
               MulFP(nominal[BIOMASS].upper_bound, SCALE \div 1000)

FoldPcs == {"fold_loop", "glucose_folds", "atp_folds", "growth_folds",
            "done", "crashed"}

ZeroBaseline ==
    /\ pc \in FoldPcs
    /\ \/ gear1.Glucose.v = 0
       \/ gear1.ATP.v = 0
       \/ gear1.Growth.v = 0

NotFinite(x) == x.t \in {"inf", "nan"}

NonFiniteFold ==
    \/ NotFinite(glucose_fold) \/ NotFinite(atp_fold) \/ NotFinite(growth_fold)
    \/ \E k \in 1..Len(printed) :
           \/ NotFinite(printed[k].glucose_fold)
           \/ NotFinite(printed[k].atp_fold)
           \/ NotFinite(printed[k].growth_fold)
    \/ \E k \in 1..Len(glucose_folds) : NotFinite(glucose_folds[k])
    \/ \E k \in 1..Len(atp_folds) : NotFinite(atp_folds[k])
    \/ \E k \in 1..Len(growth_folds) : NotFinite(growth_folds[k])

\* C3: when the baseline result's glucose flux, ATP flux or growth rate is
\* 0.0, the fold-change computations end in an explicit error: the script
\* does not run to its end, and no infinite or NaN fold change is produced
\* or handed to reporting, by the per-gear printout or by the lists.
C3_ZeroBaselineGuarded ==
    ZeroBaseline => (pc # "done" /\ ~NonFiniteFold)

\* C4: if the solver returned no objective value (None or falsy) for gear
\* i, the result recorded for gear i has growth rate 0.0 and all four flux
\* fields 0.0, whatever the flux mapping holds.
C4_InfeasibleAllZero ==
    (pc = "recorded" /\ ~Truthy(solution.objective_value)) =>
        /\ results[i].Growth.v = 0
        /\ results[i].ATP.v = 0
        /\ results[i].Glucose.v = 0
        /\ results[i].Lactate.v = 0
        /\ results[i].Ethanol.v = 0

FluxField == (ATPS :> "ATP") @@ (GLC :> "Glucose") @@ (LAC :> "Lactate") @@
             (ETOH :> "Ethanol")

C5_State ==
    /\ Len(results) = IF pc \in ConstrainingPcs \cup SolvingPcs THEN i - 1 ELSE i
    /\ \A k \in 1..Len(results) :
           /\ results[k].Gear = gears[k].name
           /\ IsNumber(results[k].Growth)
           /\ IsNumber(results[k].ATP)
           /\ IsNumber(results[k].Glucose)
           /\ IsNumber(results[k].Lactate)
           /\ IsNumber(results[k].Ethanol)
    /\ pc = "recorded" =>
           \A key \in DOMAIN FluxField :
               key \notin DOMAIN solution.fluxes =>
                   results[i][FluxField[key]].v = 0
    /\ pc \notin SweepPcs => Len(results) = Len(gears)
    /\ (pc \notin SweepPcs /\ gears = LiteralGears) =>
           [k \in 1..Len(results) |-> results[k].Gear] =
               <<"Gear 1", "Gear 2", "Gear 3", "Gear 4", "Gear 5">>

C5_Step ==
    /\ Len(results') >= Len(results)
    /\ \A k \in 1..Len(results) : results'[k] = results[k]

\* C5: whatever the solver returns, results is at every point the prefix of
\* the gear names processed so far in registry order, ends with one entry
\* per gear (Gear 1..Gear 5 for the literal table), a recorded entry is
\* never changed, and every entry holds five numbers, a flux absent from
\* the solver's mapping being recorded as 0.0.
C5_ResultsInOrder == []C5_State /\ [][C5_Step]_vars

\* a sweep of the literal table in which the fourth solve lacked fluxes
C5_Witness ==
    /\ pc = "done"
    /\ gears = LiteralGears
    /\ Len(results) = 5
    /\ results[4].Ethanol = Py(0)
    /\ results[4].Lactate = Np(40000)
    /\ results[2].Growth = Py(0)

C7_InvalidGearRejected ==
    ~AllValid =>
        /\ model = nominal
        /\ results = <<>>
        /\ \A k \in 1..Len(gears) : solves[k] = 0

\* C8: for every uptake value, of magnitude g, calculate_stress_penalty
\* returns min(0.95, f(g)), f being exp(g/35)/20 exactly when g <= 30,
\* exp(g/25)/15 exactly when 30 < g <= 80 and exp(g/40)/10 otherwise; the
\* result lies in [0, 0.95].
C8_PenaltyRegimes ==
    called = "calculate_stress_penalty" =>
        LET g == Abs(glucose_uptake)
            cap == (95 * SCALE) \div 100
        IN  /\ g <= 30 * SCALE => returned = Min(cap, ExpFP(g \div 35) \div 20)
            /\ (30 * SCALE < g /\ g <= 80 * SCALE) =>
                   returned = Min(cap, ExpFP(g \div 25) \div 15)
            /\ g > 80 * SCALE => returned = Min(cap, ExpFP(g \div 40) \div 10)
            /\ 0 <= returned /\ returned <= cap

\* the low regime at its inclusive boundary, returned unclamped
C8_Witness ==
    /\ called = "calculate_stress_penalty"
    /\ glucose_uptake = -30 * SCALE
    /\ returned = ExpFP((30 * SCALE) \div 35) \div 20
    /\ returned < (95 * SCALE) \div 100

BoundsApplied ==
    /\ model[GLC].lower_bound = gear.glucose
    /\ model[O2].lower_bound = gear.oxygen
    /\ model[ATPM].lower_bound =
           35 * SCALE + calculate_stress_cost(Abs(gear.glucose))
    /\ model[ATPM].lower_bound >= 35 * SCALE
    /\ model[ATPM].lower_bound <= 235 * SCALE
    /\ model[LAC] = Bounds(0, 1000 * SCALE)
    /\ model[ETOH] = Bounds(0, 1000 * SCALE)

\* C9: whenever the solver is invoked for gear i, every bound mutation of
\* gear i is in place and none is left over from gear i-1, and no bound
\* changes between that solve and the recording of gear i's result.
C9_BoundsBeforeSolve ==
    /\ [](pc \in SolvingPcs \cup {"recorded"} => BoundsApplied)
    /\ [][(pc \in SolvingPcs) => (model' = model)]_vars

\* the second gear of a table is being solved, its bounds differing from
\* the first gear's
C9_Witness ==
    /\ pc = "store"
    /\ i = 2
    /\ gears[1].glucose # gears[2].glucose
    /\ gears[1].oxygen # gears[2].oxygen
    /\ BoundsApplied

Phase ==
    IF pc = "idle" THEN "Idle"
    ELSE IF pc \in ConstrainingPcs THEN "Constraining"
    ELSE IF pc \in SolvingPcs THEN "Solving"
    ELSE IF pc = "recorded" THEN "Recorded"
    ELSE "Terminal"

SweepTerminal ==
    /\ Phase = "Terminal"
    /\ i = Len(gears)
    /\ Len(results) = Len(gears)

C10_State ==
    \A k \in 1..Len(gears) :
        solves[k] = IF k < i \/ (k = i /\ pc \notin ConstrainingPcs \cup {"optimize"})
                    THEN 1 ELSE 0

C10_Step ==
    \/ Phase' = Phase /\ i' = i
    \/ Phase = "Idle" /\ Phase' = "Constraining" /\ i = 0 /\ i' = 1
    \/ Phase = "Constraining" /\ Phase' = "Solving" /\ i' = i
    \/ Phase = "Solving" /\ Phase' = "Recorded" /\ i' = i
    \/ Phase = "Recorded" /\ Phase' = "Constraining" /\ i' = i + 1
    \/ Phase = "Recorded" /\ Phase' = "Terminal" /\ i' = i /\ i = Len(gears)

\* C10: the sweep is one forward pass Idle, Constraining(i), Solving(i),
\* Recorded(i) for i = 0..N-1, the gear index never decreasing or repeating,
\* the solver invoked exactly once per gear whatever it returns, and the
\* terminal state after Recorded(N-1) is always eventually reached.
C10_SinglePass == []C10_State /\ [][C10_Step]_vars /\ <>SweepTerminal

\* the literal sweep has ended although its third solve gave no objective
C10_Witness ==
    /\ SweepTerminal
    /\ gears = LiteralGears
    /\ results[3].Growth = Py(0)
    /\ results[3].ATP = Np(125000)
    /\ \A k \in 1..5 : solves[k] = 1

====
